---- MODULE Spec2Model ----
(***************************************************************************)
(* JWTAuthenticator.jwt_required (jwt_authenticator/authenticator.py).     *)
(*                                                                         *)
(* One call of decorated_function is followed statement by statement:      *)
(* _extract_token, _decode_token, _verify_token_in_db (token_id check,     *)
(* pymysql.connect, execute/fetchone, finally: close), the assignment of   *)
(* req.jwt_payload, then either _handle_error or the wrapped handler f.    *)
(*                                                                         *)
(* Strings that the code splits (the Cookie and Authorization headers) are *)
(* sequences of atoms; an atom is a separator character ("=", ";", " ") or *)
(* a word containing no separator.  A Python None that may flow where a    *)
(* string or a dict flows is the empty sequence None, and a present value  *)
(* v is Some(v) == <<v>>.                                                  *)
(*                                                                         *)
(* The authenticator keeps no state between calls (db_config and           *)
(* secret_key are only read), so calls are independent and are taken one   *)
(* after another.  The clock and the jwt_token table are read once per     *)
(* call (by jwt.decode and by the SELECT), so their changes are taken      *)
(* between calls.                                                          *)
(***************************************************************************)
EXTENDS Integers, Sequences, FiniteSets, TLC

VARIABLES
    store,          \* table jwt_token: token_id -> "absent" | "valid" | "revoked"
    now,            \* the clock jwt.decode reads
    pc,             \* position inside decorated_function
    headers,        \* req.headers of the request in progress
    token,          \* local `token` of decorated_function
    payload,        \* local `payload` of decorated_function
    connection,     \* local `connection` of _verify_token_in_db
    token_record,   \* local `token_record` of _verify_token_in_db
    pending,        \* exception raised inside the try body, travelling through finally
    exc,            \* exception `e` caught by decorated_function
    jwt_payload,    \* attribute req.jwt_payload
    response,       \* value returned by decorated_function
    openConns,      \* connections opened by pymysql.connect and not yet closed
    db,             \* what the database server did for the request in progress
    trace           \* calls made so far while serving the request in progress

vars == <<store, now, pc, headers, token, payload, connection, token_record,
          pending, exc, jwt_payload, response, openConns, db, trace>>

(***************************************************************************)
(* Bounds and input universes                                              *)
(***************************************************************************)
MaxTime == 2

TokenIds == {"t1", "t2"}

None == <<>>
Some(v) == <<v>>

NoTokenId == "<None>"

secret_key == "k"

(***************************************************************************)
(* Python str.split and `in` on sequences of atoms                         *)
(***************************************************************************)
RECURSIVE Find(_, _, _)
Find(s, sep, i) ==
    IF i + Len(sep) - 1 > Len(s) THEN 0
    ELSE IF SubSeq(s, i, i + Len(sep) - 1) = sep THEN i
    ELSE Find(s, sep, i + 1)

Contains(s, sep) == Find(s, sep, 1) # 0

RECURSIVE Split(_, _)
Split(s, sep) ==
    LET i == Find(s, sep, 1) IN
    IF i = 0 THEN <<s>>
    ELSE <<SubSeq(s, 1, i - 1)>> \o Split(SubSeq(s, i + Len(sep), Len(s)), sep)

(***************************************************************************)
(* Exceptions: classes, their base classes, isinstance                     *)
(***************************************************************************)
Raise(type, msg) == [type |-> type, msg |-> msg]

Base(cls) ==
    CASE cls = "ExpiredSignatureError"  -> "InvalidTokenError"
      [] cls = "ImmatureSignatureError" -> "InvalidTokenError"
      [] cls = "InvalidAudienceError"   -> "InvalidTokenError"
      [] cls = "InvalidAlgorithmError"  -> "InvalidTokenError"
      [] cls = "InvalidSignatureError"  -> "DecodeError"
      [] cls = "DecodeError"            -> "InvalidTokenError"
      [] cls = "InvalidTokenError"      -> "PyJWTError"
      [] cls = "IndexError"             -> "LookupError"
      [] cls = "UnboundLocalError"      -> "NameError"
      [] cls = "OperationalError"       -> "DatabaseError"
      [] cls = "DatabaseError"          -> "MySQLError"
      [] OTHER                          -> "Exception"

RECURSIVE IsInstance(_, _)
IsInstance(cls, of) ==
    IF cls = of THEN TRUE
    ELSE IF cls = "Exception" THEN FALSE
    ELSE IsInstance(Base(cls), of)

(***************************************************************************)
(* Tokens that can be presented.  A token string is known by what          *)
(* jwt.decode finds in it: the algorithm of its header, the key that       *)
(* signed it, and its claims.  Every other string is not a JWT.            *)
(***************************************************************************)
TokenInfo(t) ==
    CASE t = <<"jwt1">> ->
           Some([alg |-> "HS256", key |-> "k",
                 claims |-> [sub |-> "u1", token_id |-> "t1", exp |-> 2]])
      [] t = <<"jwt2">> ->
           Some([alg |-> "HS256", key |-> "k",
                 claims |-> [sub |-> "u2", token_id |-> "t2"]])
      [] t = <<"jwtNoId">> ->
           Some([alg |-> "HS256", key |-> "k",
                 claims |-> [sub |-> "u1"]])
      [] t = <<"jwtEmptyId">> ->
           Some([alg |-> "HS256", key |-> "k",
                 claims |-> [sub |-> "u1", token_id |-> ""]])
      [] t = <<"jwtForged">> ->
           Some([alg |-> "HS256", key |-> "other",
                 claims |-> [sub |-> "u1", token_id |-> "t1"]])
      [] t = <<"jwtHS384">> ->
           Some([alg |-> "HS384", key |-> "k",
                 claims |-> [sub |-> "u1", token_id |-> "t1"]])
      [] t = <<"jwtAud">> ->
           Some([alg |-> "HS256", key |-> "k",
                 claims |-> [sub |-> "u1", token_id |-> "t1", aud |-> "api"]])
      [] t = <<"jwtNbf">> ->
           Some([alg |-> "HS256", key |-> "k",
                 claims |-> [sub |-> "u2", token_id |-> "t2", nbf |-> 1]])
      [] OTHER -> None

Jwts == {<<"jwt1">>, <<"jwt2">>, <<"jwtNoId">>, <<"jwtEmptyId">>, <<"jwtForged">>,
         <<"jwtHS384">>, <<"jwtAud">>, <<"jwtNbf">>}

\* Values a client may put after "auth_token=" in the Cookie header.
CookieValues == Jwts \cup {<<>>, <<"XYZ">>, <<"ab", "=", "cd">>, <<"=", "jwt1">>}

\* Values a client may put after "Bearer " in the Authorization header.
BearerValues == Jwts \cup {<<>>, <<"XYZ">>}

CookieHeaders ==
    {<<"auth_token", "=">> \o v : v \in CookieValues}
    \cup {<<"sid", "=", "x", ";", " ", "auth_token", "=">> \o v : v \in {<<"jwt1">>, <<"jwt2">>}}
    \cup {<<"sid", "=", "x">>, <<"theme">>}

AuthorizationHeaders ==
    {<<"Bearer", " ">> \o v : v \in BearerValues}
    \cup {<<"Bearer", "XYZ">>, <<"Bearer", "jwt1">>, <<>>}

\* req.headers: a dict holding any of the two headers the code reads.
MkHeaders(c, a) ==
    [k \in (IF c = None THEN {} ELSE {"Cookie"})
           \cup (IF a = None THEN {} ELSE {"Authorization"})
       |-> IF k = "Cookie" THEN c[1] ELSE a[1]]

Requests ==
    {MkHeaders(c, a) : c \in {None} \cup {Some(x) : x \in CookieHeaders},
                       a \in {None} \cup {Some(x) : x \in AuthorizationHeaders}}

(***************************************************************************)
(* _extract_token                                                          *)
(***************************************************************************)
\* not x, for x a string or None
Falsy(opt) == opt = None \/ opt[1] = <<>>

\* The dict comprehension of lines 63-66, as its (key, value) pairs in order.
CookiePairs(cookie_header) ==
    LET parts == Split(cookie_header, <<";", " ">>)
        kept  == SelectSeq(parts, LAMBDA c : Contains(c, <<"=">>))
    IN  [i \in 1..Len(kept) |->
            <<Split(kept[i], <<"=">>)[1], Split(kept[i], <<"=">>)[2]>>]

\* dict.get(key): a later pair with the same key replaces an earlier one.
DictGet(pairs, key) ==
    LET hits == {i \in 1..Len(pairs) : pairs[i][1] = key} IN
    IF hits = {} THEN None
    ELSE Some(pairs[CHOOSE i \in hits : \A j \in hits : j <= i][2])

NoExc == Raise("", "")

ExtractToken(h) ==
    LET cookie_header == IF "Cookie" \in DOMAIN h THEN h["Cookie"] ELSE <<>>
        cookies       == CookiePairs(cookie_header)
        cookie_token  == DictGet(cookies, <<"auth_token">>)
        auth_header   == IF "Authorization" \in DOMAIN h
                         THEN Some(h["Authorization"]) ELSE None
    IN  IF ~Falsy(cookie_token)
        THEN [ok |-> TRUE, token |-> cookie_token[1], exc |-> NoExc]
        ELSE IF ~Falsy(auth_header)
        THEN LET parts == Split(auth_header[1], <<" ">>) IN
             IF Len(parts) < 2
             THEN [ok |-> FALSE, token |-> <<>>,
                   exc |-> Raise("IndexError", "list index out of range")]
             ELSE [ok |-> TRUE, token |-> parts[2], exc |-> NoExc]
        ELSE [ok |-> FALSE, token |-> <<>>,
              exc |-> Raise("ValueError", "Token is missing")]

(***************************************************************************)
(* _decode_token: jwt.decode(token, key, algorithms=['HS256']), with the   *)
(* checks in the order PyJWT makes them: structure, algorithm, signature,  *)
(* then the registered claims nbf, exp, aud.                               *)
(***************************************************************************)
Algorithms == {"HS256"}

JwtDecode(t, key, algorithms, clock) ==
    LET info == TokenInfo(t) IN
    IF info = None
    THEN [ok |-> FALSE, claims |-> None, exc |-> Raise("DecodeError", "Not enough segments")]
    ELSE LET c == info[1].claims IN
         IF info[1].alg \notin algorithms
         THEN [ok |-> FALSE, claims |-> None,
               exc |-> Raise("InvalidAlgorithmError", "The specified alg value is not allowed")]
         ELSE IF info[1].key # key
         THEN [ok |-> FALSE, claims |-> None,
               exc |-> Raise("InvalidSignatureError", "Signature verification failed")]
         ELSE IF "nbf" \in DOMAIN c /\ c.nbf > clock
         THEN [ok |-> FALSE, claims |-> None,
               exc |-> Raise("ImmatureSignatureError", "The token is not yet valid (nbf)")]
         ELSE IF "exp" \in DOMAIN c /\ c.exp <= clock
         THEN [ok |-> FALSE, claims |-> None,
               exc |-> Raise("ExpiredSignatureError", "Signature has expired")]
         ELSE IF "aud" \in DOMAIN c
         THEN [ok |-> FALSE, claims |-> None,
               exc |-> Raise("InvalidAudienceError", "Invalid audience")]
         ELSE [ok |-> TRUE, claims |-> Some(c), exc |-> NoExc]

DecodeToken(t, clock) == JwtDecode(t, secret_key, Algorithms, clock)

(***************************************************************************)
(* _verify_token_in_db, piece by piece                                     *)
(***************************************************************************)
\* payload.get('token_id')
PayloadGetTokenId(p) == IF "token_id" \in DOMAIN p THEN p.token_id ELSE NoTokenId

\* not token_id
TokenIdMissingNoneOnly(token_id) == token_id = NoTokenId

TokenIdMissing(token_id) == token_id = NoTokenId \/ token_id = ""

\* SELECT * FROM jwt_token WHERE token_id = %s ; cursor.fetchone()
FetchOne(table, token_id) ==
    IF token_id \in DOMAIN table /\ table[token_id] # "absent"
    THEN Some([token_id |-> token_id, state |-> table[token_id]])
    ELSE None

\* not token_record
RecordMissingNever(record) == FALSE

RecordMissingInverted(record) == record # None

RecordMissing(record) == record = None

(***************************************************************************)
(* _handle_error                                                           *)
(***************************************************************************)
HttpResponse(body, status_code) == [status_code |-> status_code, body |-> body]

HandleErrorNoValueError(e) ==
    IF IsInstance(e.type, "ExpiredSignatureError")
    THEN HttpResponse("Token is expired. Please log in again.", 401)
    ELSE IF IsInstance(e.type, "InvalidTokenError")
    THEN HttpResponse("Invalid token.", 401)
    ELSE HttpResponse("Internal server error during authentication.", 500)

HandleError(e) ==
    IF IsInstance(e.type, "ExpiredSignatureError")
    THEN HttpResponse("Token is expired. Please log in again.", 401)
    ELSE IF IsInstance(e.type, "InvalidTokenError")
    THEN HttpResponse("Invalid token.", 401)
    ELSE IF IsInstance(e.type, "ValueError")
    THEN HttpResponse(e.msg, 401)
    ELSE HttpResponse("Internal server error during authentication.", 500)

(***************************************************************************)
(* State machine                                                           *)
(***************************************************************************)
NoHeaders == MkHeaders(None, None)

Init ==
    /\ store = [id \in TokenIds |-> "absent"]
    /\ now = 0
    /\ pc = "idle"
    /\ headers = NoHeaders
    /\ token = None
    /\ payload = None
    /\ connection = "unbound"
    /\ token_record = None
    /\ pending = None
    /\ exc = None
    /\ jwt_payload = None
    /\ response = None
    /\ openConns = 0
    /\ db = "untouched"
    /\ trace = <<>>

\* The rows of jwt_token are written by the token issuer, outside this package:
\* a row is inserted at issuance, marked at revocation, or deleted.
Issue ==
    /\ pc = "idle"
    /\ \E id \in TokenIds :
          /\ store[id] = "absent"
          /\ store' = [store EXCEPT ![id] = "valid"]
    /\ UNCHANGED <<now, pc, headers, token, payload, connection, token_record,
                   pending, exc, jwt_payload, response, openConns, trace, db>>

Revoke ==
    /\ pc = "idle"
    /\ \E id \in TokenIds :
          /\ store[id] = "valid"
          /\ store' = [store EXCEPT ![id] = "revoked"]
    /\ UNCHANGED <<now, pc, headers, token, payload, connection, token_record,
                   pending, exc, jwt_payload, response, openConns, trace, db>>

Delete ==
    /\ pc = "idle"
    /\ \E id \in TokenIds :
          /\ store[id] # "absent"
          /\ store' = [store EXCEPT ![id] = "absent"]
    /\ UNCHANGED <<now, pc, headers, token, payload, connection, token_record,
                   pending, exc, jwt_payload, response, openConns, trace, db>>

\* Time passes between requests.
Tick ==
    /\ pc = "idle"
    /\ now < MaxTime
    /\ now' = now + 1
    /\ UNCHANGED <<store, pc, headers, token, payload, connection, token_record,
                   pending, exc, jwt_payload, response, openConns, trace, db>>

\* decorated_function(req) is called.
Call ==
    /\ pc = "idle"
    /\ \E h \in Requests : headers' = h
    /\ pc' = "extract"
    /\ UNCHANGED <<store, now, token, payload, connection, token_record,
                   pending, exc, jwt_payload, response, openConns, trace, db>>

\* token = self._extract_token(req)
Extract ==
    /\ pc = "extract"
    /\ LET r == ExtractToken(headers) IN
       IF r.ok
       THEN /\ token' = Some(r.token)
            /\ pc' = "decode"
            /\ exc' = exc
       ELSE /\ exc' = Some(r.exc)
            /\ pc' = "handle_error"
            /\ token' = token
    /\ trace' = Append(trace, "_extract_token")
    /\ UNCHANGED <<store, now, headers, payload, connection, token_record,
                   pending, jwt_payload, response, openConns, db>>

\* payload = self._decode_token(token)
Decode ==
    /\ pc = "decode"
    /\ LET r == DecodeToken(token[1], now) IN
       IF r.ok
       THEN /\ payload' = r.claims
            /\ pc' = "verify"
            /\ exc' = exc
       ELSE /\ exc' = Some(r.exc)
            /\ pc' = "handle_error"
            /\ payload' = payload
    /\ trace' = Append(trace, "_decode_token")
    /\ UNCHANGED <<store, now, headers, token, connection, token_record,
                   pending, jwt_payload, response, openConns, db>>

\* self._verify_token_in_db(payload.get('token_id')): the check of lines 105-106
Verify ==
    /\ pc = "verify"
    /\ IF TokenIdMissing(PayloadGetTokenId(payload[1]))
       THEN /\ exc' = Some(Raise("ValueError", "Token ID is missing from payload"))
            /\ pc' = "handle_error"
       ELSE /\ exc' = exc
            /\ pc' = "connect"
    /\ trace' = Append(trace, "_verify_token_in_db")
    /\ UNCHANGED <<store, now, headers, token, payload, connection, token_record,
                   pending, jwt_payload, response, openConns, db>>

\* connection = pymysql.connect(**self.db_config): the server answers or not
Connect ==
    /\ pc = "connect"
    /\ \E reachable \in BOOLEAN :
          IF reachable
          THEN /\ connection' = "open"
               /\ openConns' = openConns + 1
               /\ pending' = pending
               /\ db' = "connected"
               /\ pc' = "execute"
          ELSE /\ pending' = Some(Raise("OperationalError", "Can't connect to MySQL server"))
               /\ db' = "refused"
               /\ pc' = "finally"
               /\ UNCHANGED <<connection, openConns>>
    /\ trace' = Append(trace, "connect")
    /\ UNCHANGED <<store, now, headers, token, payload, token_record,
                   exc, jwt_payload, response>>

\* cursor.execute(...); token_record = cursor.fetchone(); if not token_record: raise
Execute ==
    /\ pc = "execute"
    /\ \E answered \in BOOLEAN :
          IF answered
          THEN LET row == FetchOne(store, PayloadGetTokenId(payload[1])) IN
               /\ token_record' = row
               /\ db' = "answered"
               /\ pending' = IF RecordMissing(row)
                             THEN Some(Raise("ValueError", "JWT token is blacklisted"))
                             ELSE pending
          ELSE /\ pending' = Some(Raise("OperationalError", "Lost connection to MySQL server during query"))
               /\ token_record' = token_record
               /\ db' = "failed"
    /\ pc' = "finally"
    /\ trace' = Append(trace, "execute")
    /\ UNCHANGED <<store, now, headers, token, payload, connection,
                   exc, jwt_payload, response, openConns>>

\* A close placed at the end of the try body instead of in finally.
FinallyCloseOnSuccessOnly ==
    /\ pc = "finally"
    /\ IF pending = None
       THEN /\ connection' = "closed"
            /\ openConns' = openConns - 1
            /\ trace' = Append(trace, "close")
            /\ exc' = exc
            /\ pc' = "attach"
       ELSE /\ exc' = pending
            /\ pc' = "handle_error"
            /\ UNCHANGED <<connection, openConns, trace>>
    /\ pending' = None
    /\ UNCHANGED <<store, now, headers, token, payload, token_record,
                   jwt_payload, response, db>>

\* finally: connection.close().  When connect raised, `connection` is unbound
\* and the finally clause raises UnboundLocalError in place of the first error.
Finally ==
    /\ pc = "finally"
    /\ IF connection = "unbound"
       THEN /\ exc' = Some(Raise("UnboundLocalError", "local variable 'connection' referenced before assignment"))
            /\ pc' = "handle_error"
            /\ UNCHANGED <<connection, openConns, trace>>
       ELSE /\ connection' = "closed"
            /\ openConns' = openConns - 1
            /\ trace' = Append(trace, "close")
            /\ IF pending = None
               THEN exc' = exc /\ pc' = "attach"
               ELSE exc' = pending /\ pc' = "handle_error"
    /\ pending' = None
    /\ UNCHANGED <<store, now, headers, token, payload, token_record,
                   jwt_payload, response, db>>

\* req.jwt_payload = payload
Attach ==
    /\ pc = "attach"
    /\ jwt_payload' = payload
    /\ pc' = "call_f"
    /\ UNCHANGED <<store, now, headers, token, payload, connection, token_record,
                   pending, exc, response, openConns, trace, db>>

\* except Exception as e: return self._handle_error(e)
Except ==
    /\ pc = "handle_error"
    /\ IF IsInstance(exc[1].type, "Exception")
       THEN /\ response' = Some(HandleError(exc[1]))
            /\ pc' = "done"
            /\ trace' = Append(trace, "_handle_error")
       ELSE /\ pc' = "raised"
            /\ UNCHANGED <<response, trace>>
    /\ UNCHANGED <<store, now, headers, token, payload, connection, token_record,
                   pending, exc, jwt_payload, openConns, db>>

\* return f(req, *args, **kwargs)
CallHandler ==
    /\ pc = "call_f"
    /\ response' = Some(HttpResponse("f(req)", 200))
    /\ pc' = "done"
    /\ trace' = Append(trace, "f")
    /\ UNCHANGED <<store, now, headers, token, payload, connection, token_record,
                   pending, exc, jwt_payload, openConns, db>>

\* decorated_function has returned: its frame and the request object are gone.
Return ==
    /\ pc = "done"
    /\ pc' = "idle"
    /\ headers' = NoHeaders
    /\ token' = None
    /\ payload' = None
    /\ connection' = "unbound"
    /\ token_record' = None
    /\ pending' = None
    /\ exc' = None
    /\ jwt_payload' = None
    /\ response' = None
    /\ trace' = <<>>
    /\ db' = "untouched"
    /\ UNCHANGED <<store, now, openConns>>

Next ==
    \/ Issue \/ Revoke \/ Delete \/ Tick
    \/ Call \/ Extract \/ Decode \/ Verify \/ Connect \/ Execute \/ Finally
    \/ Attach \/ Except \/ CallHandler \/ Return

Spec == Init /\ [][Next]_vars

(***************************************************************************)
(* Vocabulary of the properties                                            *)
(***************************************************************************)
Called(fn) == \E i \in 1..Len(trace) : trace[i] = fn

\* fn was called, and every call of it came after a call of g
CalledAfter(fn, g) ==
    \A i \in 1..Len(trace) : trace[i] = fn => \E j \in 1..(i - 1) : trace[j] = g

Returned == pc = "done"

ErrorResponse(status) ==
    /\ response # None
    /\ response[1].status_code = status
    /\ response[1].body # "f(req)"

\* What the request carries, read off the header text itself:
\* every A with a cookie pair "auth_token=A", and the B of "Bearer B".
CarriedCookieValues(h) ==
    IF "Cookie" \notin DOMAIN h THEN {}
    ELSE LET parts == Split(h["Cookie"], <<";", " ">>) IN
         {SubSeq(parts[i], 3, Len(parts[i])) :
            i \in {j \in 1..Len(parts) : /\ Len(parts[j]) >= 2
                                         /\ parts[j][1] = "auth_token"
                                         /\ parts[j][2] = "="}}

CarriesBearer(h) ==
    /\ "Authorization" \in DOMAIN h
    /\ Len(h["Authorization"]) >= 2
    /\ h["Authorization"][1] = "Bearer"
    /\ h["Authorization"][2] = " "

BearerValue(h) == SubSeq(h["Authorization"], 3, Len(h["Authorization"]))

\* The request presents no token at all: no non-empty auth_token cookie value
\* and no non-empty credential after "Bearer ".
PresentsNoToken(h) ==
    /\ \A A \in CarriedCookieValues(h) : A = <<>>
    /\ ~(CarriesBearer(h) /\ BearerValue(h) # <<>>)

\* The extracted token, judged on its content at the time of the request.
WellSigned(t) ==
    /\ TokenInfo(t) # None
    /\ TokenInfo(t)[1].alg = "HS256"
    /\ TokenInfo(t)[1].key = secret_key

Unexpired(t) ==
    LET c == TokenInfo(t)[1].claims IN "exp" \in DOMAIN c => c.exp > now

OtherClaimsAccepted(t) ==
    LET c == TokenInfo(t)[1].claims IN
    /\ "aud" \notin DOMAIN c
    /\ "nbf" \in DOMAIN c => c.nbf <= now

HasTokenId(t) ==
    LET c == TokenInfo(t)[1].claims IN
    "token_id" \in DOMAIN c /\ c.token_id \in TokenIds

TokenIdOf(t) == TokenInfo(t)[1].claims.token_id

\* The kind of failure of the request in progress, from its cause.
FailureKind ==
    IF token = None
    THEN IF "Authorization" \notin DOMAIN headers \/ headers["Authorization"] = <<>>
         THEN "MissingToken" ELSE "Unclassified"
    ELSE IF payload = None
    THEN IF TokenInfo(token[1]) = None THEN "MalformedStructure"
         ELSE IF ~WellSigned(token[1]) THEN "MalformedSignature"
         ELSE IF ~Unexpired(token[1]) /\ OtherClaimsAccepted(token[1]) THEN "Expired"
         ELSE "RejectedClaims"
    ELSE IF db = "untouched" THEN "MissingTokenIdentifier"
    ELSE IF db \in {"refused", "failed"} THEN "Unavailable"
    ELSE "Revoked"

ClientFaults == {"MissingToken", "MalformedStructure", "MalformedSignature", "Expired",
                 "MissingTokenIdentifier", "Revoked"}

(***************************************************************************)
(* Properties                                                              *)
(***************************************************************************)

\* C1: the wrapped handler is invoked only after extraction, decoding and the
\* store lookup have all succeeded for the same request, in that order; a
\* request for which one of them failed gets an error response and the handler
\* is never invoked for it.
C1_HandlerOnlyAfterAllChecks ==
    /\ Called("f") =>
          /\ token # None /\ payload # None
          /\ db = "answered" /\ token_record # None
          /\ exc = None
          /\ trace = <<"_extract_token", "_decode_token", "_verify_token_in_db",
                       "connect", "execute", "close", "f">>
          /\ jwt_payload = payload
    /\ (Returned /\ (token = None \/ payload = None \/ token_record = None)) =>
          /\ ~Called("f")
          /\ ErrorResponse(401) \/ ErrorResponse(500)

C1_Witness == Returned /\ Called("f") /\ response[1].status_code = 200

C3_Claimed ==
    (/\ Returned /\ payload # None
     /\ PayloadGetTokenId(payload[1]) \in TokenIds
     /\ store[PayloadGetTokenId(payload[1])] = "revoked")
    => /\ ~Called("f")
       /\ db = "answered" => ErrorResponse(401)

\* C4 as stated: no record for the identifier of a correctly signed, unexpired
\* token: the request fails with 401 and the handler is not invoked.
C4_Claimed ==
    (/\ Returned /\ payload # None
     /\ PayloadGetTokenId(payload[1]) \in TokenIds
     /\ store[PayloadGetTokenId(payload[1])] = "absent")
    => /\ ~Called("f")
       /\ ErrorResponse(401)

\* C4 amended: no record for the identifier: the handler is never invoked and
\* the request fails, with 401 "JWT token is blacklisted" when the lookup was
\* answered and with 500 when the connection or the query failed.
C4_DefaultDeny ==
    (/\ Returned /\ payload # None
     /\ PayloadGetTokenId(payload[1]) \in TokenIds
     /\ store[PayloadGetTokenId(payload[1])] = "absent")
    => /\ ~Called("f")
       /\ jwt_payload = None
       /\ db = "answered" =>
             ErrorResponse(401) /\ response[1].body = "JWT token is blacklisted"
       /\ db \in {"refused", "failed"} => ErrorResponse(500)
       /\ db \in {"answered", "refused", "failed"}

C4_Witness ==
    /\ Returned /\ payload # None /\ db = "answered" /\ token_record = None
    /\ store[PayloadGetTokenId(payload[1])] = "absent"
    /\ ErrorResponse(401)

C6_MissingTokenIdRejected ==
    (/\ Returned /\ payload # None
     /\ ("token_id" \notin DOMAIN payload[1] \/ payload[1].token_id = ""))
    => /\ ErrorResponse(401)
       /\ response[1].body = "Token ID is missing from payload"
       /\ ~Called("connect") /\ ~Called("execute") /\ db = "untouched"
       /\ ~Called("f")

C6_Witness ==
    /\ Returned /\ payload = Some([sub |-> "u1", token_id |-> ""])
    /\ ErrorResponse(401) /\ db = "untouched"

\* C7 as stated: a request carrying a non-empty cookie auth_token=A gets A
\* from extraction, whatever its Authorization header holds (in particular
\* with Authorization: Bearer B), so the header is used only without a cookie
\* value.
C7_Claimed ==
    pc \notin {"idle", "extract"} =>
        \A A \in CarriedCookieValues(headers) : A # <<>> => token = Some(A)

\* C8 as stated: without an auth_token cookie, an Authorization header that
\* lacks the space-separated scheme is rejected as a missing token, with 401.
C8_Claimed ==
    (/\ Returned
     /\ CarriedCookieValues(headers) = {}
     /\ "Authorization" \in DOMAIN headers
     /\ ~Contains(headers["Authorization"], <<" ">>))
    => /\ token = None
       /\ exc # None /\ exc[1] = Raise("ValueError", "Token is missing")
       /\ ErrorResponse(401)

\* C9 as stated: the store is contacted only after extraction and decoding
\* succeeded; a request whose extracted token is missing, malformed, wrongly
\* signed or expired never opens a connection; a request that presents no
\* token never reaches the decode step.
C9_Claimed ==
    /\ Called("connect") =>
          /\ token # None /\ payload # None
          /\ CalledAfter("connect", "_decode_token")
          /\ CalledAfter("_decode_token", "_extract_token")
    /\ (token = None /\ pc \notin {"idle", "extract"}) => ~Called("connect")
    /\ (token # None /\ ~(WellSigned(token[1]) /\ Unexpired(token[1]))) =>
          ~Called("connect")
    /\ PresentsNoToken(headers) => ~Called("_decode_token")

\* C10: a connection opened during an authentication is closed before
\* decorated_function builds its error response, attaches the payload or
\* invokes the handler, on every way out of the lookup; between requests no
\* connection is open.
C10_ConnectionsClosed ==
    /\ pc \in {"attach", "call_f", "handle_error", "done", "idle"} =>
          /\ openConns = 0
          /\ connection # "open"
    /\ openConns \in {0, 1}
    /\ openConns = 1 <=> connection = "open"

C10_Witness ==
    /\ Returned /\ Called("close") /\ db = "failed" /\ openConns = 0

====
